---- MODULE Spec2Model ----
(***************************************************************************)
(* FlashFAT: a FAT-like append-only file store over a W25Q64FV NOR flash.  *)
(* The engine (src/src/FlashFAT.cpp) is modelled operation by operation;   *)
(* the flash driver (W25Q64FV.hpp, not part of the sources) is modelled    *)
(* from the transport contract of the specification: page read, page       *)
(* program (bits can only be cleared), sector erase (all bytes to 255).    *)
(***************************************************************************)
EXTENDS Integers, Sequences, FiniteSets, TLC

VARIABLES
    mode,           \* _mode
    table,          \* _table: [num_files, file_close_err, files]
    write_buffer,   \* _write_buffer[0 .. _write_buffer_index-1]
    erase_index,    \* _erase_index
    current_index,  \* _current_index
    end_index,      \* _end_index
    file_index,     \* _file_index
    flash,          \* the medium: page number -> 256 bytes (touched pages only)
    fill,           \* what an untouched cell of the medium holds
    ub,             \* the program has left defined behaviour (memory overrun)
    op,             \* the last operation called and its argument
    ret,            \* what it returned
    calls,          \* the transport calls it issued, in order
    fresh,          \* pages erased in this write session and not programmed since
    unsafe,         \* a data page was programmed although not in fresh
    content,        \* file index -> the bytes written to it (closed files)
    written,        \* the bytes passed to write() in this write session
    delivered,      \* the bytes read() delivered in this read session
    last_peek,      \* peek() before the last read()
    sessions,       \* write sessions opened so far
    nreads,         \* read() calls of this read session that returned bytes
    nwrites,        \* write() calls of this write session
    fault,          \* the transport call of the last operation that failed
    wel,            \* the device's write-enable latch: clear, set, ready
    unarmed         \* the last operation erased or programmed with the latch not ready

vars == <<mode, table, write_buffer, erase_index, current_index, end_index,
          file_index, flash, fill, ub, op, ret, calls, fresh, unsafe, content,
          written, delivered, last_peek, sessions, nreads, nwrites, fault,
          wel, unarmed>>

----------------------------------------------------------------------------
(* Program constants *)

FLASH_FAT_MAX_FILE_COUNT == 254
FLASH_FAT_FILE_BUFFER == 512
FLASH_FAT_NO_ERROR_FILE == 255
PAGE_SIZE == 256
SECTOR_SIZE == 4096
INT_MAX == 2147483647
U16_MOD == 65536

FLASHFAT_OK == "FLASHFAT_OK"
FLASHFAT_FLASH_FAILURE == "FLASHFAT_FLASH_FAILURE"
FLASHFAT_MAX_FILE_COUNT_REACHED == "FLASHFAT_MAX_FILE_COUNT_REACHED"
FLASHFAT_FILE_ALLOCATION_TABLE_NOT_FOUND == "FLASHFAT_FILE_ALLOCATION_TABLE_NOT_FOUND"
FLASHFAT_WRONG_MODE == "FLASHFAT_WRONG_MODE"
FLASHFAT_INVALID_FILE == "FLASHFAT_INVALID_FILE"

\* The enum's numeric value, which read() returns as a byte count.
StatusCode(st) ==
    CASE st = FLASHFAT_OK -> 0
      [] st = FLASHFAT_FLASH_FAILURE -> 1
      [] st = FLASHFAT_MAX_FILE_COUNT_REACHED -> 2
      [] st = FLASHFAT_FILE_ALLOCATION_TABLE_NOT_FOUND -> 3
      [] st = FLASHFAT_WRONG_MODE -> 4
      [] st = FLASHFAT_INVALID_FILE -> 5

FLASHFAT_WRITE_MODE == "FLASHFAT_WRITE_MODE"
FLASHFAT_READ_MODE == "FLASHFAT_READ_MODE"
FLASHFAT_NO_MODE == "FLASHFAT_NO_MODE"

\* A value stored into a uint. The addresses of the model stay far below
\* 2^31, so a sum never wraps; a negative difference wraps to the top of the
\* range (the checker's integers end at 2^31 - 1: INT_MAX + 1 - d stands for
\* 2^32 - d).
U32(x) == IF x < 0 THEN (x + INT_MAX) + 1 ELSE x

\* "FLASHFAT"
Prefix == <<70, 76, 65, 83, 72, 70, 65, 84>>

----------------------------------------------------------------------------
(* The medium *)

RECURSIVE BitAnd(_, _, _)
BitAnd(a, b, n) ==
    IF n = 0 THEN 0
    ELSE (a % 2) * (b % 2) + 2 * BitAnd(a \div 2, b \div 2, n - 1)

\* Programming a cell can only clear bits.
ProgramByte(old, new) ==
    IF old = 255 THEN new
    ELSE IF new = 255 THEN old
    ELSE BitAnd(old, new, 8)

ErasedPage == [i \in 1..PAGE_SIZE |-> 255]

PageOf(addr) == addr \div PAGE_SIZE

SectorPages(addr) ==
    LET first == (addr \div SECTOR_SIZE) * (SECTOR_SIZE \div PAGE_SIZE)
    IN  first .. (first + (SECTOR_SIZE \div PAGE_SIZE) - 1)

\* The medium is kept sparse: a page never touched holds the fill value, and
\* a page that is wholly erased is kept as the empty sequence.
ByteAt(s, addr) ==
    IF PageOf(addr) \notin DOMAIN s.flash THEN s.fill
    ELSE IF s.flash[PageOf(addr)] = <<>> THEN 255
    ELSE s.flash[PageOf(addr)][(addr % PAGE_SIZE) + 1]

PageAt(s, p) ==
    IF p \notin DOMAIN s.flash THEN [i \in 1..PAGE_SIZE |-> s.fill]
    ELSE IF s.flash[p] = <<>> THEN ErasedPage
    ELSE s.flash[p]

W25Q64FV_OK == "W25Q64FV_OK"
W25Q64FV_ERROR == "W25Q64FV_ERROR"

\* No transport call fails.
NoFault == <<"none", 0>>

\* How many calls of this name the operation has issued.
Issued(s, name) == Cardinality({k \in 1..Len(s.calls) : s.calls[k][1] = name})

\* s.fault = <<name, n>>: the n-th call of that name in the operation fails.
\* A call that fails returns an error and has no effect on the medium.
Fails(s, name) == s.fault = <<name, Issued(s, name) + 1>>

\* No power loss in the operation.
NoPowerLoss == -1

\* s.power = k: the power is lost after the k-th transport call of the
\* operation; a call issued after that has no effect on the medium.
Powered(s) == s.power = NoPowerLoss \/ Len(s.calls) < s.power

Log(s, name, addr, who) ==
    [s EXCEPT !.calls = Append(@, <<name, addr, who>>),
              !.status = IF Fails(s, name) THEN W25Q64FV_ERROR ELSE W25Q64FV_OK,
              !.failed = @ \/ Fails(s, name)]

\* The busy-wait; after an enable_writing it makes the latch ready.
wait_until_free(s, who) ==
    [Log(s, "wait_until_free", 0, who)
       EXCEPT !.wel = IF @ = "set" /\ ~Fails(s, "wait_until_free")
                      THEN "ready" ELSE @]

enable_writing(s, who) ==
    [Log(s, "enable_writing", 0, who)
       EXCEPT !.wel = IF Fails(s, "enable_writing") THEN @ ELSE "set"]

\* An erase or a program uses the latch up, and is noted when it was issued
\* without an enable_writing and a busy-wait before it.
Disarm(s, t) ==
    [t EXCEPT !.wel = "clear", !.unarmed = @ \/ s.wel # "ready"]

\* Erases the whole sector that holds addr.
erase_sector(s, addr, who) ==
    LET ps == SectorPages(addr)
        t  == Disarm(s, Log(s, "erase_sector", addr, who))
    IN  IF Fails(s, "erase_sector") \/ ~Powered(s) THEN t
        ELSE [t EXCEPT
                !.flash = [p \in (DOMAIN s.flash) \cup ps |->
                             IF p \in ps THEN <<>> ELSE s.flash[p]],
                !.fresh = @ \cup ps]

\* Programs 256 bytes, wrapping inside the page that holds addr.
write_page(s, addr, buf, who) ==
    LET pg  == PageOf(addr)
        off == addr % PAGE_SIZE
        old == PageAt(s, pg)
        new == [i \in 1..PAGE_SIZE |->
                  LET k == ((i - 1 - off) % PAGE_SIZE) + 1
                  IN  ProgramByte(old[i], buf[k])]
        t   == Disarm(s, Log(s, "write_page", addr, who))
    IN  IF Fails(s, "write_page") \/ ~Powered(s) THEN t
        ELSE [t EXCEPT
                !.flash = [p \in (DOMAIN s.flash) \cup {pg} |->
                             IF p # pg THEN s.flash[p]
                             ELSE IF new = ErasedPage THEN <<>> ELSE new],
                !.fresh = @ \ {pg},
                !.unsafe = @ \/ (pg \notin s.fresh)]

\* The 256 bytes that start at addr.
read_page(s, addr) == [i \in 1..PAGE_SIZE |-> ByteAt(s, addr + i - 1)]

----------------------------------------------------------------------------
(* The allocation table codec *)

Min(a, b) == IF a < b THEN a ELSE b

\* _table._files is kept sparse: a slot never assigned holds the zeroes of
\* the object's static storage.
ZeroEntry == [start_page |-> 0, page_length |-> 0, end_offset |-> 0]

FileAt(tb, i) == IF i \in DOMAIN tb.files THEN tb.files[i] ELSE ZeroEntry

SetFile(tb, i, e) ==
    [tb EXCEPT !.files = [j \in (DOMAIN tb.files) \cup {i} |->
                            IF j = i THEN e ELSE tb.files[j]]]

\* Byte j (0-based) of the record write_file_allocation_table builds.
TableByte(tb, j) ==
    IF j < 8 THEN Prefix[j + 1]
    ELSE IF j = 8 THEN tb.num_files
    ELSE IF j = 9 THEN tb.file_close_err
    ELSE IF j < 10 + 5 * tb.num_files
    THEN LET e == FileAt(tb, (j - 10) \div 5)
             f == (j - 10) % 5
         IN  CASE f = 0 -> (e.start_page \div 256) % 256
               [] f = 1 -> e.start_page % 256
               [] f = 2 -> (e.page_length \div 256) % 256
               [] f = 3 -> e.page_length % 256
               [] f = 4 -> e.end_offset
    ELSE 0

\* The entries are written at buffer[10 + 5*i ..]: past the 256-byte buffer
\* once num_files exceeds 49.
TableOverruns(n) == 10 + 5 * n > PAGE_SIZE

write_file_allocation_table(s) ==
    LET buffer == [i \in 1..PAGE_SIZE |-> TableByte(s.table, i - 1)]
        who == "write_file_allocation_table"
        s1 == wait_until_free(s, who)
        s2 == enable_writing(s1, who)
        s3 == wait_until_free(s2, who)
        s4 == erase_sector(s3, 0, who)
        s5 == wait_until_free(s4, who)
        s6 == enable_writing(s5, who)
        s7 == wait_until_free(s6, who)
        s8 == write_page(s7, 0, buffer, who)
    IN  [s8 EXCEPT !.ub = @ \/ TableOverruns(s.table.num_files),
                   !.ret = FLASHFAT_OK]

\* Entry i as get_file_allocation_table decodes it from the page.
DecodeEntry(buffer, i) ==
    LET b(j) == IF j < PAGE_SIZE THEN buffer[j + 1] ELSE 0
        index == 10 + 5 * i
    IN  [start_page  |-> b(index) * 256 + b(index + 1),
         page_length |-> b(index + 2) * 256 + b(index + 3),
         end_offset  |-> b(index + 4)]

get_file_allocation_table(s) ==
    LET who == "get_file_allocation_table"
        s1 == Log(wait_until_free(s, who), "read_page", 0, who)
        buffer == read_page(s, 0)
        n == buffer[9]
    IN  IF s1.status # W25Q64FV_OK THEN [s1 EXCEPT !.ret = FLASHFAT_FLASH_FAILURE]
        ELSE IF SubSeq(buffer, 1, 8) # Prefix
        THEN [s1 EXCEPT !.ret = FLASHFAT_FILE_ALLOCATION_TABLE_NOT_FOUND]
        ELSE [s1 EXCEPT
                !.table = [num_files |-> n,
                           file_close_err |-> buffer[10],
                           files |-> [i \in (DOMAIN s.table.files) \cup (0 .. n - 1) |->
                                        IF i < n THEN DecodeEntry(buffer, i)
                                        ELSE s.table.files[i]]],
                !.ub = @ \/ TableOverruns(n),
                !.ret = FLASHFAT_OK]

create_file_allocation_table(s) ==
    write_file_allocation_table([s EXCEPT !.table.num_files = 0])

\* Mutant: a fresh table is stored whatever the load returned.
begin_always_creates(s) ==
    LET s0 == Log(s, "begin", 0, "begin")
        s1 == get_file_allocation_table(s0)
    IN  IF s0.status # W25Q64FV_OK THEN [s0 EXCEPT !.ret = FLASHFAT_FLASH_FAILURE]
        ELSE [create_file_allocation_table(s1) EXCEPT !.ret = FLASHFAT_OK]

\* Mutant: a table that is not found is reported and not created.
begin_never_creates(s) ==
    LET s0 == Log(s, "begin", 0, "begin")
        s1 == get_file_allocation_table(s0)
    IN  IF s0.status # W25Q64FV_OK THEN [s0 EXCEPT !.ret = FLASHFAT_FLASH_FAILURE]
        ELSE IF s1.ret = FLASHFAT_FILE_ALLOCATION_TABLE_NOT_FOUND
        THEN s1
        ELSE [s1 EXCEPT !.ret = FLASHFAT_OK]

begin(s) ==
    LET s0 == Log(s, "begin", 0, "begin")
        s1 == get_file_allocation_table(s0)
    IN  IF s0.status # W25Q64FV_OK THEN [s0 EXCEPT !.ret = FLASHFAT_FLASH_FAILURE]
        ELSE IF s1.ret = FLASHFAT_FILE_ALLOCATION_TABLE_NOT_FOUND
        THEN [create_file_allocation_table(s1) EXCEPT !.ret = FLASHFAT_OK]
        ELSE [s1 EXCEPT !.ret = FLASHFAT_OK]

----------------------------------------------------------------------------
(* The write session *)

\* Mutant: the check rejects only a call made with no session open.
WrongModeClosedOnly(s, m) == s.mode = FLASHFAT_NO_MODE /\ m # FLASHFAT_NO_MODE

\* The mode check every entry point starts with.
WrongMode(s, m) == s.mode # m

\* Mutant: the address is rounded down to its sector, not up to the next.
NextStartAddressRoundDown(tb) ==
    LET n == tb.num_files
        last_used_address ==
            IF n = 0 THEN 0
            ELSE U32((FileAt(tb, n - 1).start_page + FileAt(tb, n - 1).page_length) * 256
                     + FileAt(tb, n - 1).end_offset)
    IN  U32((last_used_address \div 4096) * 4096)

\* Mutant: the first file of an empty table starts at address 0.
NextStartAddressFirstAtZero(tb) ==
    LET n == tb.num_files
        last_used_address ==
            U32((FileAt(tb, n - 1).start_page + FileAt(tb, n - 1).page_length) * 256
                + FileAt(tb, n - 1).end_offset)
    IN  IF n = 0 THEN 0 ELSE U32(((last_used_address \div 4096) + 1) * 4096)

\* The first 4 KiB boundary after the last byte of the last file.
NextStartAddress(tb) ==
    LET n == tb.num_files
        last_used_address ==
            IF n = 0 THEN 0
            ELSE U32((FileAt(tb, n - 1).start_page + FileAt(tb, n - 1).page_length) * 256
                     + FileAt(tb, n - 1).end_offset)
    IN  U32(((last_used_address \div 4096) + 1) * 4096)

\* Mutant: the crash marker is not set to the index of the new file.
new_file_unflagged(s) ==
    IF WrongMode(s, FLASHFAT_NO_MODE) THEN [s EXCEPT !.ret = FLASHFAT_WRONG_MODE]
    ELSE IF s.table.num_files >= FLASH_FAT_MAX_FILE_COUNT
    THEN [s EXCEPT !.ret = FLASHFAT_MAX_FILE_COUNT_REACHED]
    ELSE
        LET next_start_address == NextStartAddress(s.table)
            fi == s.table.num_files
            s1 == [s EXCEPT
                     !.table = SetFile([@ EXCEPT !.num_files = fi + 1], fi,
                                 [FileAt(@, fi) EXCEPT !.start_page =
                                    (next_start_address \div 256) % U16_MOD]),
                     !.file_index = fi]
            s2 == erase_sector(wait_until_free(s1, "new_file"),
                               next_start_address, "new_file")
            s3 == [s2 EXCEPT !.erase_index = U32(next_start_address + 4095),
                             !.current_index = next_start_address,
                             !.mode = FLASHFAT_WRITE_MODE]
        IN  write_file_allocation_table(s3)

new_file(s) ==
    IF WrongMode(s, FLASHFAT_NO_MODE) THEN [s EXCEPT !.ret = FLASHFAT_WRONG_MODE]
    ELSE IF s.table.num_files >= FLASH_FAT_MAX_FILE_COUNT
    THEN [s EXCEPT !.ret = FLASHFAT_MAX_FILE_COUNT_REACHED]
    ELSE
        LET next_start_address == NextStartAddress(s.table)
            fi == s.table.num_files
            s1 == [s EXCEPT
                     !.table = SetFile([@ EXCEPT !.num_files = fi + 1], fi,
                                 [FileAt(@, fi) EXCEPT !.start_page =
                                    (next_start_address \div 256) % U16_MOD]),
                     !.file_index = fi]
            s2 == erase_sector(wait_until_free(s1, "new_file"),
                               next_start_address, "new_file")
            s3 == [s2 EXCEPT !.erase_index = U32(next_start_address + 4095),
                             !.current_index = next_start_address,
                             !.table.file_close_err = fi,
                             !.mode = FLASHFAT_WRITE_MODE]
        IN  write_file_allocation_table(s3)

\* Mutant: the erase is issued at the frontier itself, one byte short of the
\* next sector.
EraseAheadAtFrontier(s, who) ==
    IF U32(s.current_index + FLASH_FAT_FILE_BUFFER) > s.erase_index
    THEN [erase_sector(s, s.erase_index, who)
            EXCEPT !.erase_index = U32(s.erase_index + 4096)]
    ELSE s

\* The erase-ahead check that write() and close_file() make before a flush.
EraseAhead(s, who) ==
    IF U32(s.current_index + FLASH_FAT_FILE_BUFFER) > s.erase_index
    THEN [erase_sector(s, U32(s.erase_index + 1), who)
            EXCEPT !.erase_index = U32(s.erase_index + 4096)]
    ELSE s

\* One data page: the write-enable sequence, then the program.
ProgramPage(s, buf, p, who) ==
    LET s1 == wait_until_free(s, who)
        s2 == enable_writing(s1, who)
        s3 == wait_until_free(s2, who)
    IN  write_page(s3, s.current_index, SubSeq(buf, p * 256 + 1, p * 256 + 256), who)

\* write(): the flush of a full buffer.
FlushFull(s) ==
    LET s1 == EraseAhead(s, "write")
        s2 == ProgramPage(s1, s.write_buffer, 0, "write")
        s3 == [s2 EXCEPT !.current_index = U32(@ + 256)]
        s4 == ProgramPage(s3, s.write_buffer, 1, "write")
        s5 == [s4 EXCEPT !.current_index = U32(@ + 256)]
    IN  [s5 EXCEPT !.write_buffer = <<>>]

\* write()'s loop, taken a buffer-full at a time: the bytes that still fit
\* are copied, and the buffer is flushed when it reaches its capacity.
RECURSIVE WriteLoop(_, _)
WriteLoop(s, data) ==
    IF data = <<>> THEN s
    ELSE
        LET take == Min(FLASH_FAT_FILE_BUFFER - Len(s.write_buffer), Len(data))
            s1 == [s EXCEPT !.write_buffer = @ \o SubSeq(data, 1, take)]
            rest == SubSeq(data, take + 1, Len(data))
        IN  IF Len(s1.write_buffer) >= FLASH_FAT_FILE_BUFFER
            THEN WriteLoop(FlushFull(s1), rest)
            ELSE s1

write(s, buffer) ==
    IF WrongMode(s, FLASHFAT_WRITE_MODE) THEN [s EXCEPT !.ret = FLASHFAT_WRONG_MODE]
    ELSE [WriteLoop(s, buffer) EXCEPT !.ret = FLASHFAT_OK]

\* close_file(): the flush of a partly filled buffer, padded with 255. A
\* program that fails ends the loop, and close_file() with it.
RECURSIVE FlushPages(_, _, _, _)
FlushPages(s, buf, p, pages_to_write) ==
    IF p >= pages_to_write THEN s
    ELSE
        LET n == Len(s.write_buffer)
            bytes_to_write ==
                IF p = pages_to_write - 1
                THEN (IF n % 256 = 0 /\ n # 0 THEN 256 ELSE n % 256)
                ELSE 256
            s1 == ProgramPage(s, buf, p, "close_file")
        IN  IF s1.status # W25Q64FV_OK THEN s1
            ELSE FlushPages([s1 EXCEPT !.current_index = U32(@ + bytes_to_write)],
                            buf, p + 1, pages_to_write)

FlushPartial(s) ==
    LET n == Len(s.write_buffer)
        buf == [i \in 1..FLASH_FAT_FILE_BUFFER |->
                  IF i <= n THEN s.write_buffer[i] ELSE 255]
        s1 == EraseAhead(s, "close_file")
    IN  FlushPages(s1, buf, 0, (n + 255) \div 256)

\* Mutant: the file index is reset before the entry is finalised.
FinalizedTableSlotZero(a) ==
    SetFile([a.table EXCEPT !.file_close_err = FLASH_FAT_NO_ERROR_FILE], 0,
            [FileAt(a.table, 0) EXCEPT
               !.page_length =
                   ((a.current_index \div 256) - FileAt(a.table, 0).start_page) % U16_MOD,
               !.end_offset = Len(a.write_buffer) % 256])

\* Mutant: the page count of the entry is rounded up.
FinalizedTableRoundUp(a) ==
    LET fi == a.file_index
    IN  SetFile([a.table EXCEPT !.file_close_err = FLASH_FAT_NO_ERROR_FILE], fi,
                [FileAt(a.table, fi) EXCEPT
                   !.page_length =
                       (((a.current_index + 255) \div 256)
                         - FileAt(a.table, fi).start_page) % U16_MOD,
                   !.end_offset = Len(a.write_buffer) % 256])

\* close_file(): the table with the crash marker cleared and the entry of
\* the file finalised.
FinalizedTable(a) ==
    LET fi == a.file_index
    IN  SetFile([a.table EXCEPT !.file_close_err = FLASH_FAT_NO_ERROR_FILE], fi,
                [FileAt(a.table, fi) EXCEPT
                   !.page_length =
                       ((a.current_index \div 256)
                         - FileAt(a.table, fi).start_page) % U16_MOD,
                   !.end_offset = Len(a.write_buffer) % 256])

close_file(s) ==
    LET flushes == s.mode = FLASHFAT_WRITE_MODE /\ Len(s.write_buffer) # 0
        a  == IF flushes THEN FlushPartial(s) ELSE s
        s1 == IF s.mode = FLASHFAT_WRITE_MODE
              THEN write_file_allocation_table(
                        [a EXCEPT !.table = FinalizedTable(a)])
              ELSE s
    IN  IF flushes /\ a.status # W25Q64FV_OK
        THEN [a EXCEPT !.ret = FLASHFAT_FLASH_FAILURE]
        ELSE [s1 EXCEPT !.mode = FLASHFAT_NO_MODE,
                        !.write_buffer = <<>>,
                        !.file_index = 0,
                        !.erase_index = 0,
                        !.current_index = 0,
                        !.ret = FLASHFAT_OK]

----------------------------------------------------------------------------
(* The read session *)

\* Mutant: the index equal to the file count passes.
InvalidFileOffByOne(num_files, fi) == num_files < fi

\* open_file(): the check of the index against the table just loaded.
InvalidFile(num_files, fi) == num_files <= fi

open_file(s, fi) ==
    IF WrongMode(s, FLASHFAT_NO_MODE) THEN [s EXCEPT !.ret = FLASHFAT_WRONG_MODE]
    ELSE
        LET s1 == get_file_allocation_table(s)
        IN  IF s1.ret # FLASHFAT_OK THEN s1
            ELSE IF InvalidFile(s1.table.num_files, fi)
            THEN [s1 EXCEPT !.ret = FLASHFAT_INVALID_FILE]
            ELSE
                LET e == FileAt(s1.table, fi)
                    start == U32(e.start_page * 256)
                IN  [s1 EXCEPT
                       !.mode = FLASHFAT_READ_MODE,
                       !.file_index = fi,
                       !.current_index = start,
                       !.end_index =
                           U32(start + e.page_length * 256 + e.end_offset),
                       !.ret = FLASHFAT_OK]

peek(s) ==
    IF s.mode # FLASHFAT_READ_MODE THEN 0
    ELSE U32(s.end_index - s.current_index)

\* read()'s loop: a page is read at the cursor, the cursor is moved on by the
\* whole length that is still to be read, and up to 256 bytes are copied out.
RECURSIVE ReadLoop(_, _)
ReadLoop(s, length) ==
    IF length = 0 THEN s
    ELSE
        LET read_buffer == read_page(s, s.current_index)
            s1 == [Log(s, "read_page", s.current_index, "read")
                     EXCEPT !.current_index = U32(@ + length)]
        IN  IF s1.status # W25Q64FV_OK THEN s1
            ELSE IF length > 255
            THEN ReadLoop([s1 EXCEPT !.out = @ \o read_buffer], length - 256)
            ELSE [s1 EXCEPT !.out = @ \o SubSeq(read_buffer, 1, length)]

\* The caller's buffer holds the `length` bytes it asked for; a clamped
\* length above that (the cursor is past the end) overruns it.
read(s, length) ==
    IF WrongMode(s, FLASHFAT_READ_MODE)
    THEN [s EXCEPT !.ret = StatusCode(FLASHFAT_WRONG_MODE)]
    ELSE IF peek(s) = 0 THEN [s EXCEPT !.ret = 0]
    ELSE
        LET clamped ==
                IF U32(s.current_index + length) > s.end_index
                THEN U32(s.end_index - s.current_index)
                ELSE length
        IN  IF clamped > length
            THEN [s EXCEPT !.ub = TRUE, !.ret = clamped]
            ELSE LET r == ReadLoop(s, clamped)
                 IN  [r EXCEPT !.ret = IF r.status # W25Q64FV_OK THEN 0
                                       ELSE clamped]

----------------------------------------------------------------------------
(* Directory operations *)

\* Mutant: the count is decremented without the check for zero.
delete_last_file_unchecked(s) ==
    IF WrongMode(s, FLASHFAT_NO_MODE) THEN [s EXCEPT !.ret = FLASHFAT_INVALID_FILE]
    ELSE write_file_allocation_table([s EXCEPT !.table.num_files = (@ - 1) % 256])

delete_last_file(s) ==
    IF WrongMode(s, FLASHFAT_NO_MODE) THEN [s EXCEPT !.ret = FLASHFAT_INVALID_FILE]
    ELSE write_file_allocation_table(
            IF s.table.num_files > 0
            THEN [s EXCEPT !.table.num_files = @ - 1]
            ELSE s)

delete_all_files(s) ==
    IF WrongMode(s, FLASHFAT_NO_MODE) THEN [s EXCEPT !.ret = FLASHFAT_INVALID_FILE]
    ELSE write_file_allocation_table([s EXCEPT !.table.num_files = 0])

----------------------------------------------------------------------------
(* The state machine *)

\* Bounds of the model
MaxSessions == 2
MaxWrites == 1
MaxFileLen == 600
MaxReads == 3
MaxBigLen == 8192
WriteLens == {1, 512}
SessionLens == {0, 1, 256, 257, 512}
ReadLens == {1, 256, 384}
BigLens == {1, 3584, 4096}
\* What the cells of the medium hold before the engine first touches them: 0,
\* a medium programmed all over by an earlier use, so that a program into a
\* cell that was not erased shows.
MediumFill == {0}
\* The same, and 255: a medium as it leaves the factory, erased all over.
BootFill == {0, 255}

FileIndexes == 0 .. (FLASH_FAT_MAX_FILE_COUNT - 1)

\* The engine's fields, with an empty call log and an empty caller's buffer.
St ==
    [mode |-> mode, table |-> table, write_buffer |-> write_buffer,
     erase_index |-> erase_index, current_index |-> current_index,
     end_index |-> end_index, file_index |-> file_index, flash |-> flash,
     fill |-> fill, ub |-> ub, ret |-> ret, calls |-> <<>>, out |-> <<>>,
     fresh |-> fresh, unsafe |-> unsafe, fault |-> NoFault,
     status |-> W25Q64FV_OK, failed |-> FALSE, wel |-> wel, unarmed |-> FALSE,
     power |-> NoPowerLoss]

\* The same, with the transport call f of the operation failing.
Faulty(f) == [St EXCEPT !.fault = f]

Commit(r) ==
    /\ mode' = r.mode
    /\ table' = r.table
    /\ write_buffer' = r.write_buffer
    /\ erase_index' = r.erase_index
    /\ current_index' = r.current_index
    /\ end_index' = r.end_index
    /\ file_index' = r.file_index
    /\ flash' = r.flash
    /\ fill' = fill
    /\ ub' = r.ub
    /\ ret' = r.ret
    /\ calls' = r.calls
    /\ fresh' = r.fresh
    /\ unsafe' = r.unsafe
    /\ fault' = IF r.failed THEN r.fault ELSE NoFault
    /\ wel' = r.wel
    /\ unarmed' = r.unarmed

\* The bytes a caller writes: a pattern of the write session and the offset.
DataByte(seed, o) == (o + 3 * (o \div 256) + 101 * seed) % 251

Pattern(seed, offset, len) == [i \in 1..len |-> DataByte(seed, offset + i - 1)]

\* A global object: zero-initialised storage, then the member initialisers.
InitWith(fills) ==
    /\ mode = FLASHFAT_NO_MODE
    /\ table = [num_files |-> 0, file_close_err |-> 0,
                files |-> <<>>]
    /\ write_buffer = <<>>
    /\ erase_index = 0
    /\ current_index = 0
    /\ end_index = 0
    /\ file_index = 0
    /\ flash = <<>>
    /\ fill \in fills
    /\ ub = FALSE
    /\ op = <<"construct", 0>>
    /\ ret = FLASHFAT_OK
    /\ calls = <<>>
    /\ fresh = {}
    /\ unsafe = FALSE
    /\ content = <<>>
    /\ written = <<>>
    /\ delivered = <<>>
    /\ last_peek = 0
    /\ sessions = 0
    /\ nreads = 0
    /\ nwrites = 0
    /\ fault = NoFault
    /\ wel = "clear"
    /\ unarmed = FALSE

Init == InitWith(MediumFill)

\* The engine is in use: begin() has run and behaviour is still defined.
Ready == op[1] # "construct" /\ ~ub

Begin ==
    /\ op[1] = "construct"
    /\ Commit(begin(St))
    /\ op' = <<"begin", 0>>
    /\ UNCHANGED <<content, written, delivered, last_peek, sessions, nreads, nwrites>>

NewFile(maxFiles, maxSessions) ==
    /\ Ready
    /\ mode = FLASHFAT_NO_MODE => table.num_files < maxFiles /\ sessions < maxSessions
    /\ LET opens == mode = FLASHFAT_NO_MODE
                      /\ table.num_files < FLASH_FAT_MAX_FILE_COUNT
           r == new_file([St EXCEPT !.fresh = IF opens THEN {} ELSE @])
       IN  /\ Commit(r)
           /\ written' = IF opens THEN <<>> ELSE written
           /\ nwrites' = IF opens THEN 0 ELSE nwrites
           /\ sessions' = IF opens THEN sessions + 1 ELSE sessions
    /\ op' = <<"new_file", 0>>
    /\ UNCHANGED <<content, delivered, last_peek, nreads>>

\* write() called on the object s0.
WriteFrom(s0, lens, maxLen, maxWrites) ==
    /\ Ready
    /\ \E len \in lens :
         /\ IF mode = FLASHFAT_WRITE_MODE
            THEN Len(written) + len <= maxLen /\ nwrites < maxWrites
            ELSE \A l \in lens : l > 0 => len <= l
         /\ len > 0 \/ mode = FLASHFAT_WRITE_MODE
         /\ LET data == Pattern(sessions, Len(written), len)
            IN  /\ Commit(write(s0, data))
                /\ written' = IF mode = FLASHFAT_WRITE_MODE
                              THEN written \o data ELSE written
         /\ op' = <<"write", len>>
    /\ nwrites' = IF mode = FLASHFAT_WRITE_MODE THEN nwrites + 1 ELSE nwrites
    /\ UNCHANGED <<content, delivered, last_peek, sessions, nreads>>

Write(lens, maxLen, maxWrites) == WriteFrom(St, lens, maxLen, maxWrites)

\* close_file() called on the object s0.
CloseFileFrom(s0) ==
    /\ Ready
    /\ LET r == close_file(s0)
           ended == r.mode = FLASHFAT_NO_MODE
       IN  /\ Commit(r)
           /\ content' = IF mode = FLASHFAT_WRITE_MODE /\ ended
                         THEN [i \in (DOMAIN content) \cup {file_index} |->
                                 IF i = file_index THEN written ELSE content[i]]
                         ELSE content
           /\ written' = IF ended THEN <<>> ELSE written
           /\ nwrites' = IF ended THEN 0 ELSE nwrites
    /\ delivered' = <<>>
    /\ nreads' = 0
    /\ last_peek' = 0
    /\ op' = <<"close_file", 0>>
    /\ UNCHANGED sessions

CloseFile == CloseFileFrom(St)

OpenFile(maxIndex) ==
    /\ Ready
    /\ \E fi \in 0..maxIndex :
         /\ mode # FLASHFAT_NO_MODE => fi = 0
         /\ LET r == open_file(St, fi)
            IN  /\ Commit(r)
                /\ last_peek' = peek(r)
         /\ op' = <<"open_file", fi>>
    /\ UNCHANGED <<content, written, delivered, sessions, nreads, nwrites>>

Read(lens, maxReads) ==
    /\ Ready
    /\ \E len \in lens :
         /\ IF mode = FLASHFAT_READ_MODE
            THEN nreads < maxReads
            ELSE \A l \in lens : len <= l
         /\ LET r == read(St, len)
            IN  /\ Commit(r)
                /\ delivered' = IF mode = FLASHFAT_READ_MODE
                                THEN delivered \o SubSeq(r.out, 1, Min(r.ret, Len(r.out)))
                                ELSE delivered
                /\ nreads' = IF mode = FLASHFAT_READ_MODE /\ r.ret > 0
                             THEN nreads + 1 ELSE nreads
         /\ op' = <<"read", len>>
    /\ last_peek' = peek(St)
    /\ UNCHANGED <<content, written, sessions, nwrites>>

\* The ghost contents of the files that remain after a deletion.
Kept(n) == [i \in {j \in DOMAIN content : j < n} |-> content[i]]

DeleteLastFile ==
    /\ Ready
    /\ LET r == delete_last_file(St)
       IN  /\ Commit(r)
           /\ content' = Kept(r.table.num_files)
    /\ op' = <<"delete_last_file", 0>>
    /\ UNCHANGED <<written, delivered, last_peek, sessions, nreads, nwrites>>

DeleteAllFiles ==
    /\ Ready
    /\ LET r == delete_all_files(St)
       IN  /\ Commit(r)
           /\ content' = Kept(r.table.num_files)
    /\ op' = <<"delete_all_files", 0>>
    /\ UNCHANGED <<written, delivered, last_peek, sessions, nreads, nwrites>>

\* create_file_allocation_table() is public and checks no mode. Called in a
\* read session it takes the file out of the table, and the session goes on
\* reading it through its cursors.
CreateFileAllocationTable ==
    /\ Ready
    /\ LET r == create_file_allocation_table(St)
       IN  /\ Commit(r)
           /\ content' = [i \in {j \in DOMAIN content :
                                    mode = FLASHFAT_READ_MODE /\ j = file_index}
                            |-> content[i]]
    /\ op' = <<"create_file_allocation_table", 0>>
    /\ UNCHANGED <<written, delivered, last_peek, sessions, nreads, nwrites>>

\* The directory over several files: every call is made in a mode that
\* accepts it, a file is read a page at a time.
Next ==
    \/ Begin
    \/ mode = FLASHFAT_NO_MODE /\ NewFile(MaxSessions, MaxSessions)
    \/ mode = FLASHFAT_WRITE_MODE /\ Write(WriteLens, MaxFileLen, MaxWrites)
    \/ mode # FLASHFAT_NO_MODE /\ CloseFile
    \/ mode = FLASHFAT_NO_MODE /\ OpenFile(MaxSessions)
    \/ mode = FLASHFAT_READ_MODE /\ Read({PAGE_SIZE}, MaxFileLen)
    \/ mode = FLASHFAT_NO_MODE /\ DeleteLastFile
    \/ mode = FLASHFAT_NO_MODE /\ DeleteAllFiles
    \/ mode = FLASHFAT_NO_MODE /\ CreateFileAllocationTable

Spec == Init /\ [][Next]_vars

\* One file at a time, written and read in every split of the lengths, and
\* every call made in every mode.
NextSession ==
    \/ Begin
    \/ NewFile(1, MaxSessions)
    \/ Write(SessionLens, MaxFileLen, MaxWrites + 1)
    \/ CloseFile
    \/ OpenFile(1)
    \/ Read(ReadLens, MaxReads)
    \/ DeleteLastFile
    \/ DeleteAllFiles
    \/ CreateFileAllocationTable

SpecSession == Init /\ [][NextSession]_vars

\* One file at a time, written in every split of the lengths and closed,
\* every call made in the mode its documentation prescribes; the table is
\* reset between the files.
NextLengths ==
    \/ Begin
    \/ mode = FLASHFAT_NO_MODE /\ NewFile(1, MaxSessions)
    \/ mode = FLASHFAT_WRITE_MODE /\ Write(SessionLens, MaxFileLen, MaxWrites + 1)
    \/ mode = FLASHFAT_WRITE_MODE /\ CloseFile
    \/ mode = FLASHFAT_NO_MODE /\ CreateFileAllocationTable

SpecLengths == Init /\ [][NextLengths]_vars

\* Files of more than one sector, one at a time, deleted and written again.
NextBig ==
    \/ Begin
    \/ mode = FLASHFAT_NO_MODE /\ NewFile(1, MaxSessions)
    \/ mode = FLASHFAT_WRITE_MODE /\ Write(BigLens, MaxBigLen, MaxWrites + 1)
    \/ mode = FLASHFAT_WRITE_MODE /\ CloseFile
    \/ mode = FLASHFAT_NO_MODE /\ DeleteLastFile

SpecBig == Init /\ [][NextBig]_vars

\* The table filled with empty files.
NextFill ==
    \/ Begin
    \/ NewFile(FLASH_FAT_MAX_FILE_COUNT + 1, FLASH_FAT_MAX_FILE_COUNT + 1)
    \/ CloseFile

SpecFill == Init /\ [][NextFill]_vars

\* The object as a restart constructs it, over the medium as it is.
Reconstructed ==
    [St EXCEPT !.mode = FLASHFAT_NO_MODE,
               !.table = [num_files |-> 0, file_close_err |-> 0, files |-> <<>>],
               !.write_buffer = <<>>,
               !.erase_index = 0,
               !.current_index = 0,
               !.end_index = 0,
               !.file_index = 0,
               !.wel = "clear"]

\* A power loss and a restart: the object is constructed anew, the medium
\* keeps what it holds.
PowerCycle ==
    /\ Ready
    /\ mode' = FLASHFAT_NO_MODE
    /\ table' = [num_files |-> 0, file_close_err |-> 0, files |-> <<>>]
    /\ write_buffer' = <<>>
    /\ erase_index' = 0
    /\ current_index' = 0
    /\ end_index' = 0
    /\ file_index' = 0
    /\ op' = <<"construct", 0>>
    /\ ret' = FLASHFAT_OK
    /\ calls' = <<>>
    /\ fresh' = {}
    /\ written' = <<>>
    /\ delivered' = <<>>
    /\ last_peek' = 0
    /\ nreads' = 0
    /\ nwrites' = 0
    /\ fault' = NoFault
    /\ wel' = "clear"
    /\ unarmed' = FALSE
    /\ UNCHANGED <<flash, fill, ub, unsafe, content, sessions>>

\* The directory across restarts, on a medium that starts programmed or
\* erased.
NextBoot ==
    \/ Begin
    \/ mode = FLASHFAT_NO_MODE /\ NewFile(MaxSessions, MaxSessions)
    \/ mode = FLASHFAT_WRITE_MODE /\ Write(WriteLens, MaxFileLen, MaxWrites)
    \/ mode = FLASHFAT_WRITE_MODE /\ CloseFile
    \/ mode = FLASHFAT_NO_MODE /\ DeleteLastFile
    \/ PowerCycle

SpecBoot == InitWith(BootFill) /\ [][NextBoot]_vars

\* One file at a time with a transport call failing in write() or in
\* close_file(): the first or second erase, program or enable_writing.
FaultLens == {1, 512, 3584}
MaxFaultOrdinal == 2
Faults ==
    {NoFault} \cup
    ({"erase_sector", "write_page", "enable_writing"} \X (1..MaxFaultOrdinal))

NextFault ==
    \/ Begin
    \/ mode = FLASHFAT_NO_MODE /\ NewFile(1, 1)
    \/ mode = FLASHFAT_WRITE_MODE
         /\ \E f \in Faults : WriteFrom(Faulty(f), FaultLens, MaxBigLen, MaxWrites + 1)
    \/ mode # FLASHFAT_NO_MODE /\ \E f \in Faults : CloseFileFrom(Faulty(f))
    \/ mode = FLASHFAT_NO_MODE /\ OpenFile(0)

SpecFault == Init /\ [][NextFault]_vars

\* The table codec on its own: a table of the object's memory is stored, and
\* a newly constructed object loads it.
MaxCodecSeed == 3
CodecCounts == {0, 1, 2, 49, 50, 51, FLASH_FAT_MAX_FILE_COUNT}
CodecMarkers == {0, 1, FLASH_FAT_NO_ERROR_FILE}

\* Entry values that use both bytes of the two 16-bit fields.
CodecEntry(seed, i) ==
    [start_page  |-> (16 + 257 * seed * (i + 1)) % U16_MOD,
     page_length |-> (300 * seed + 7 * i) % U16_MOD,
     end_offset  |-> (31 * seed + i) % 256]

CodecTable(n, m, seed) ==
    [num_files |-> n, file_close_err |-> m,
     files |-> [i \in 0 .. n - 1 |-> CodecEntry(seed, i)]]

InitCodec ==
    /\ mode = FLASHFAT_NO_MODE
    /\ table \in {CodecTable(n, m, seed) :
                    n \in CodecCounts, m \in CodecMarkers, seed \in 1..MaxCodecSeed}
    /\ write_buffer = <<>>
    /\ erase_index = 0
    /\ current_index = 0
    /\ end_index = 0
    /\ file_index = 0
    /\ flash = <<>>
    /\ fill \in MediumFill
    /\ ub = FALSE
    /\ op = <<"table", 0>>
    /\ ret = FLASHFAT_OK
    /\ calls = <<>>
    /\ fresh = {}
    /\ unsafe = FALSE
    /\ content = <<>>
    /\ written = <<>>
    /\ delivered = <<>>
    /\ last_peek = 0
    /\ sessions = 0
    /\ nreads = 0
    /\ nwrites = 0
    /\ fault = NoFault
    /\ wel = "clear"
    /\ unarmed = FALSE

StoreTable ==
    /\ ~ub
    /\ op[1] = "table"
    /\ Commit(write_file_allocation_table(St))
    /\ op' = <<"write_file_allocation_table", table.num_files>>
    /\ UNCHANGED <<content, written, delivered, last_peek, sessions, nreads, nwrites>>

LoadTable ==
    /\ ~ub
    /\ op[1] = "write_file_allocation_table"
    /\ Commit(get_file_allocation_table(Reconstructed))
    /\ op' = <<"get_file_allocation_table", op[2]>>
    /\ UNCHANGED <<content, written, delivered, last_peek, sessions, nreads, nwrites>>

NextCodec ==
    \/ StoreTable
    \/ LoadTable

SpecCodec == InitCodec /\ [][NextCodec]_vars

\* A power loss inside an operation: the operation called in the mode that
\* accepts it, cut after k of its transport calls.
CutOps == {"begin", "new_file", "write", "close_file", "delete_last_file",
           "delete_all_files", "create_file_allocation_table"}

\* begin() has run since the object was constructed.
Running == Ready /\ op[1] # "power_loss"

MayCall(name) ==
    CASE name = "begin" -> op[1] \in {"construct", "power_loss"} /\ ~ub
      [] name = "new_file" ->
            Running /\ mode = FLASHFAT_NO_MODE /\ table.num_files < 1 /\ sessions < 2
      [] name \in {"write", "close_file"} -> Running /\ mode = FLASHFAT_WRITE_MODE
      [] OTHER -> Running /\ mode = FLASHFAT_NO_MODE

Interrupted(name, k) ==
    LET s0 == [St EXCEPT !.power = k]
    IN  CASE name = "begin" -> begin(s0)
          [] name = "new_file" -> new_file([s0 EXCEPT !.fresh = {}])
          [] name = "write" ->
                write(s0, Pattern(sessions, Len(written), FLASH_FAT_FILE_BUFFER))
          [] name = "close_file" -> close_file(s0)
          [] name = "delete_last_file" -> delete_last_file(s0)
          [] name = "delete_all_files" -> delete_all_files(s0)
          [] name = "create_file_allocation_table" -> create_file_allocation_table(s0)

\* The medium keeps what the first k calls did to it; the object is
\* constructed anew.
PowerLoss ==
    \E name \in CutOps :
        /\ MayCall(name)
        /\ \E k \in 0 .. (Len(Interrupted(name, NoPowerLoss).calls) - 1) :
             LET r == Interrupted(name, k)
             IN  /\ flash' = r.flash
                 /\ calls' = SubSeq(r.calls, 1, k)
                 /\ ub' = r.ub
                 /\ op' = <<"power_loss", k>>
        /\ mode' = FLASHFAT_NO_MODE
        /\ table' = [num_files |-> 0, file_close_err |-> 0, files |-> <<>>]
        /\ write_buffer' = <<>>
        /\ erase_index' = 0
        /\ current_index' = 0
        /\ end_index' = 0
        /\ file_index' = 0
        /\ ret' = FLASHFAT_OK
        /\ fresh' = {}
        /\ written' = <<>>
        /\ delivered' = <<>>
        /\ last_peek' = 0
        /\ nreads' = 0
        /\ nwrites' = 0
        /\ fault' = NoFault
        /\ wel' = "clear"
        /\ unarmed' = FALSE
        /\ UNCHANGED <<fill, unsafe, content, sessions>>

\* begin() after a power loss, as after construction.
Restart ==
    /\ op[1] = "power_loss"
    /\ ~ub
    /\ Commit(begin(St))
    /\ op' = <<"begin", 0>>
    /\ UNCHANGED <<content, written, delivered, last_peek, sessions, nreads, nwrites>>

NextPower ==
    \/ Begin
    \/ Restart
    \/ Running /\ mode = FLASHFAT_NO_MODE /\ NewFile(1, 2)
    \/ Running /\ mode = FLASHFAT_WRITE_MODE /\ Write(WriteLens, MaxFileLen, 1)
    \/ Running /\ mode = FLASHFAT_WRITE_MODE /\ CloseFile
    \/ Running /\ mode = FLASHFAT_NO_MODE /\ DeleteLastFile
    \/ Running /\ mode = FLASHFAT_NO_MODE /\ DeleteAllFiles
    \/ Running /\ mode = FLASHFAT_NO_MODE /\ CreateFileAllocationTable
    \/ PowerLoss

SpecPower == InitWith(BootFill) /\ [][NextPower]_vars

----------------------------------------------------------------------------
(* What the claims observe *)

Medium == [flash |-> flash, fill |-> fill]

StartAddress(tb, i) == FileAt(tb, i).start_page * 256

FileLength(tb, i) == FileAt(tb, i).page_length * 256 + FileAt(tb, i).end_offset

EndAddress(tb, i) == StartAddress(tb, i) + FileLength(tb, i)

\* The bytes the medium m holds in the extent of entry i of tb.
StoredBytes(m, tb, i) ==
    [k \in 1..FileLength(tb, i) |-> ByteAt(m, StartAddress(tb, i) + k - 1)]

\* File i is in the table and is not the file being written.
IsClosed(i) ==
    i < table.num_files /\ ~(mode = FLASHFAT_WRITE_MODE /\ file_index = i)

HasMarker(m) == \A j \in 0..7 : ByteAt(m, j) = Prefix[j + 1]

PersistedNumFiles(m) == ByteAt(m, 8)

PersistedEntry(m, i) == DecodeEntry(read_page(m, 0), i)

IsDataCall(c) ==
    c[1] \in {"erase_sector", "write_page"} /\ c[3] # "write_file_allocation_table"

IsTableCall(c) ==
    c[1] \in {"erase_sector", "write_page"} /\ c[3] = "write_file_allocation_table"

\* A rejected call leaves the session, the table and the medium as they were
\* and issues no transport call.
SessionUntouched ==
    /\ UNCHANGED <<mode, table, write_buffer, erase_index, current_index,
                   end_index, file_index, flash>>
    /\ calls' = <<>>

----------------------------------------------------------------------------
(* The claims *)

\* C1: a file written through any split into write() calls and closed, then
\* opened and read until peek() is 0, delivers exactly the bytes written.
C1_RoundTrip ==
    (mode = FLASHFAT_READ_MODE /\ ~ub /\ peek(St) = 0)
        => delivered = content[file_index]

\* C2: write() outside Writing, read() outside Reading, new_file() and
\* open_file() outside Closed fail with the mode-mismatch error and change
\* neither the session, the table nor the medium; no step leads from Writing
\* to Reading or back.
C2_WrongModeRejected ==
    [][/\ (op'[1] = "write" /\ mode # FLASHFAT_WRITE_MODE)
            => (ret' = FLASHFAT_WRONG_MODE /\ SessionUntouched)
       /\ (op'[1] = "read" /\ mode # FLASHFAT_READ_MODE)
            => (ret' = StatusCode(FLASHFAT_WRONG_MODE) /\ SessionUntouched)
       /\ (op'[1] = "new_file" /\ mode # FLASHFAT_NO_MODE)
            => (ret' = FLASHFAT_WRONG_MODE /\ SessionUntouched)
       /\ (op'[1] = "open_file" /\ mode # FLASHFAT_NO_MODE)
            => (ret' = FLASHFAT_WRONG_MODE /\ SessionUntouched)
       /\ ~(mode = FLASHFAT_WRITE_MODE /\ mode' = FLASHFAT_READ_MODE)
       /\ ~(mode = FLASHFAT_READ_MODE /\ mode' = FLASHFAT_WRITE_MODE)]_vars

\* A read() was rejected in a write session that holds unflushed bytes.
C2_Witness ==
    /\ op[1] = "read"
    /\ mode = FLASHFAT_WRITE_MODE
    /\ ret = StatusCode(FLASHFAT_WRONG_MODE)
    /\ write_buffer # <<>>

\* C3: every entry below file_count starts on a sector boundary, and each
\* entry starts strictly after the end of the entry before it.
C3_AllocationInvariant ==
    \A i \in 0..(table.num_files - 1) :
        /\ StartAddress(table, i) % SECTOR_SIZE = 0
        /\ (i + 1 < table.num_files)
              => StartAddress(table, i + 1) > EndAddress(table, i)

\* Two closed files, the earlier one of zero length.
C3_Witness ==
    /\ table.num_files = 2
    /\ mode = FLASHFAT_NO_MODE
    /\ FileLength(table, 0) = 0
    /\ FileLength(table, 1) > 0

\* C4: in a read session peek() never exceeds the length of the file, falls
\* with every read() that delivers bytes, and a read() issued at peek() = 0
\* returns 0.
C4_PeekDecreasesToZero ==
    mode = FLASHFAT_READ_MODE =>
        /\ peek(St) <= Len(content[file_index])
        /\ (op[1] = "read" /\ ret > 0) => peek(St) < last_peek
        /\ (op[1] = "read" /\ last_peek = 0) => ret = 0

\* C5: no step changes the entry of a closed file that stays in the table,
\* nor a byte of the medium inside its extent.
C5_ClosedFilesImmutable ==
    [][\A i \in 0..(table.num_files - 1) :
          (IsClosed(i) /\ i < table'.num_files) =>
              /\ FileAt(table', i) = FileAt(table, i)
              /\ StoredBytes(Medium', table, i) = StoredBytes(Medium, table, i)]_vars

\* A file was written and closed, a later file was created, closed and
\* deleted, and the first file is still in the table.
C5_Witness ==
    /\ op[1] = "delete_last_file"
    /\ table.num_files = 1
    /\ sessions = 2
    /\ FileLength(table, 0) > 0
    /\ StoredBytes(Medium, table, 0) = content[0]

\* C6: every page program hits a page erased earlier in the same write
\* session and not programmed since; the cursor never passes the erase
\* frontier, and every page from the cursor to the frontier is still erased.
C6_EraseBeforeProgram ==
    /\ ~unsafe
    /\ mode = FLASHFAT_WRITE_MODE =>
          /\ current_index <= erase_index + 1
          /\ \A p \in PageOf(current_index)..PageOf(erase_index) : p \in fresh

\* A write session that reuses the range of a deleted file has flushed into
\* its second sector.
C6_Witness ==
    /\ mode = FLASHFAT_WRITE_MODE
    /\ sessions = 2
    /\ op[1] = "write"
    /\ current_index >= StartAddress(table, file_index) + SECTOR_SIZE + PAGE_SIZE

\* C7: no file starts inside the first sector, the erases and programs
\* issued for file data stay out of it, and the table store touches no
\* other sector.
C7_TableSectorReserved ==
    /\ \A i \in 0..(table.num_files - 1) : StartAddress(table, i) >= SECTOR_SIZE
    /\ \A k \in 1..Len(calls) :
          /\ IsDataCall(calls[k]) => calls[k][2] >= SECTOR_SIZE
          /\ IsTableCall(calls[k]) => calls[k][2] < SECTOR_SIZE

\* The first file of an empty table was closed with a data page programmed.
C7_Witness ==
    /\ op[1] = "close_file"
    /\ table.num_files = 1
    /\ sessions = 1
    /\ \E k \in 1..Len(calls) : calls[k][1] = "write_page" /\ calls[k][3] = "close_file"

\* C8: the table takes new_file()/close() pairs up to FLASH_FAT_MAX_FILE_COUNT
\* files, each store keeping inside the record and the persisted table
\* carrying every entry; the call after that returns the table-full error,
\* issues no transport call and leaves the session closed.
C8_TableFull ==
    /\ ~ub
    /\ table.num_files <= FLASH_FAT_MAX_FILE_COUNT
    /\ op[1] # "construct" =>
          \A i \in 0..(table.num_files - 1) :
              PersistedEntry(Medium, i) = FileAt(table, i)
    /\ (op[1] = "new_file" /\ ret = FLASHFAT_MAX_FILE_COUNT_REACHED) =>
          /\ table.num_files = FLASH_FAT_MAX_FILE_COUNT
          /\ mode = FLASHFAT_NO_MODE
          /\ calls = <<>>

\* C9: delete_last_file() in Closed mode returns success, takes one off a
\* positive file_count and leaves a zero one, keeps the entries below the
\* new count, and stores a table that carries the new count.
C9_DeleteLastFile ==
    [][(op'[1] = "delete_last_file" /\ mode = FLASHFAT_NO_MODE) =>
          /\ ret' = FLASHFAT_OK
          /\ table'.num_files =
                IF table.num_files > 0 THEN table.num_files - 1 ELSE 0
          /\ \A i \in 0..(table'.num_files - 1) :
                FileAt(table', i) = FileAt(table, i)
          /\ \E k \in 1..Len(calls') : calls'[k] = <<"write_page", 0,
                                                     "write_file_allocation_table">>
          /\ HasMarker(Medium')
          /\ PersistedNumFiles(Medium') = table'.num_files]_vars

\* The second of two files was deleted.
C9_Witness ==
    /\ op[1] = "delete_last_file"
    /\ ret = FLASHFAT_OK
    /\ table.num_files = 1
    /\ 1 \in DOMAIN table.files

\* C10: open_file(index) in Closed mode returns the invalid-file error, stays
\* Closed and sets no cursor when index >= the persisted file_count; below
\* it, it returns success and enters Reading.
C10_OpenFileIndexCheck ==
    [][(op'[1] = "open_file" /\ mode = FLASHFAT_NO_MODE) =>
          IF op'[2] >= PersistedNumFiles(Medium)
          THEN /\ ret' = FLASHFAT_INVALID_FILE
               /\ mode' = FLASHFAT_NO_MODE
               /\ UNCHANGED <<current_index, end_index, file_index>>
          ELSE /\ ret' = FLASHFAT_OK
               /\ mode' = FLASHFAT_READ_MODE]_vars

\* The index equal to the file count of a table of one file was refused.
C10_Witness ==
    /\ op = <<"open_file", 1>>
    /\ table.num_files = 1
    /\ ret = FLASHFAT_INVALID_FILE
    /\ mode = FLASHFAT_NO_MODE

\* C11: begin() returns success; on a medium without the marker it stores a
\* table with the marker and file_count 0 and holds the same in memory; on a
\* medium with a valid table it leaves the medium alone and holds that
\* table's file_count and entries in memory.
C11_Bootstrap ==
    [][op'[1] = "begin" =>
          /\ ret' = FLASHFAT_OK
          /\ HasMarker(Medium')
          /\ table'.num_files = PersistedNumFiles(Medium')
          /\ IF HasMarker(Medium)
             THEN /\ flash' = flash
                  /\ \A i \in 0..(table'.num_files - 1) :
                        FileAt(table', i) = PersistedEntry(Medium, i)
             ELSE table'.num_files = 0]_vars

\* After a restart begin() found the table of one file of nonzero length,
\* on a medium that was erased all over before its first use.
C11_Witness ==
    /\ op[1] = "begin"
    /\ ret = FLASHFAT_OK
    /\ fill = 255
    /\ table.num_files = 1
    /\ FileLength(table, 0) > 0

\* C12: close() in Writing or Reading mode returns Ok and leaves the session
\* Closed, with the write buffer empty and the file index, the cursor and
\* the erase frontier reset, whatever the transport calls of the final flush
\* returned.
C12_CloseAlwaysEndsSession ==
    op[1] = "close_file" =>
        /\ ret = FLASHFAT_OK
        /\ mode = FLASHFAT_NO_MODE
        /\ write_buffer = <<>>
        /\ file_index = 0
        /\ current_index = 0
        /\ erase_index = 0

\* C13: a write() in which an erase or a page program failed returns the
\* transport-failure error, and the session is still Writing.
C13_WriteTransportFailure ==
    (op[1] = "write" /\ fault[1] \in {"erase_sector", "write_page"}) =>
        /\ ret = FLASHFAT_FLASH_FAILURE
        /\ mode = FLASHFAT_WRITE_MODE

\* C14: while a write session is open the persisted table has the marker, a
\* file_count that includes the new file and a crash marker equal to its
\* index, and a begin() after a power loss loads just that; after the
\* close() of a write session the persisted crash marker is the sentinel,
\* which is no file index.
C14_CrashMarker ==
    /\ mode = FLASHFAT_WRITE_MODE =>
          /\ HasMarker(Medium)
          /\ PersistedNumFiles(Medium) = file_index + 1
          /\ ByteAt(Medium, 9) = file_index
          /\ begin(Reconstructed).table.num_files = file_index + 1
          /\ begin(Reconstructed).table.file_close_err = file_index
    /\ (op[1] = "close_file" /\ calls # <<>>) =>
          /\ ByteAt(Medium, 9) = FLASH_FAT_NO_ERROR_FILE
          /\ FLASH_FAT_NO_ERROR_FILE \notin FileIndexes

\* The power was lost in the first write session, and the begin() after it
\* loaded a table of one file whose crash marker is that file's index.
C14_Witness ==
    /\ op[1] = "begin"
    /\ sessions = 1
    /\ table.num_files = 1
    /\ table.file_close_err = 0
    /\ ByteAt(Medium, 9) = 0

\* C15: delete_last_file() and delete_all_files() called in Writing or
\* Reading mode return the mode-mismatch error, issue no transport call and
\* leave the file_count in memory and on the medium as it was.
C15_DeleteWrongMode ==
    (op[1] \in {"delete_last_file", "delete_all_files"} /\ mode # FLASHFAT_NO_MODE) =>
        /\ ret = FLASHFAT_WRONG_MODE
        /\ calls = <<>>
        /\ PersistedNumFiles(Medium) = table.num_files

\* C16: a read(max_length) in Reading mode returns min(max_length, bytes
\* remaining), moves the cursor on by exactly that count, and the cursor
\* never passes the read limit.
C16_ReadAdvancesByCount ==
    mode = FLASHFAT_READ_MODE =>
        /\ current_index <= end_index
        /\ op[1] = "read" =>
              /\ ret = Min(op[2], last_peek)
              /\ current_index = (end_index - last_peek) + ret

\* C17: storing a table of 0..FLASH_FAT_MAX_FILE_COUNT files, whatever its
\* crash marker and entries, stays inside the 256-byte record, erases and
\* programs page 0 only, lays out marker, count, crash marker and entries at
\* bytes 0-7, 8, 9 and 10 onwards, and a load by a new object returns the same
\* count, crash marker and entries below the count.
C17_TableCodecRoundTrip ==
    op[1] = "write_file_allocation_table" =>
        /\ ~ub
        /\ \A k \in 1..Len(calls) :
              calls[k][1] \in {"erase_sector", "write_page"} => calls[k][2] = 0
        /\ HasMarker(Medium)
        /\ ByteAt(Medium, 8) = table.num_files
        /\ ByteAt(Medium, 9) = table.file_close_err
        /\ LET l == get_file_allocation_table(Reconstructed)
           IN  /\ l.ret = FLASHFAT_OK
               /\ ~l.ub
               /\ l.table.num_files = table.num_files
               /\ l.table.file_close_err = table.file_close_err
               /\ \A i \in 0 .. table.num_files - 1 :
                     FileAt(l.table, i) = FileAt(table, i)

\* C18: after a new_file() that succeeded the session is in Writing mode with
\* the cursor at the start address of the new entry, the file_count is one
\* more than the index of the new entry, and that entry has page_length and
\* end_offset 0 in memory and in the persisted table, also in a slot that
\* held a file removed by delete_last_file() or delete_all_files().
C18_NewFileEntry ==
    (op[1] = "new_file" /\ ret = FLASHFAT_OK) =>
        /\ mode = FLASHFAT_WRITE_MODE
        /\ table.num_files = file_index + 1
        /\ PersistedNumFiles(Medium) = table.num_files
        /\ current_index = StartAddress(table, file_index)
        /\ FileAt(table, file_index).page_length = 0
        /\ FileAt(table, file_index).end_offset = 0
        /\ PersistedEntry(Medium, file_index) = FileAt(table, file_index)

\* C19: a close_file() that ends a write session in which N bytes were passed
\* to write() leaves the entry of the file, in memory and in the persisted
\* table, with page_length = N div 256 and end_offset = N mod 256, so that
\* page_length * 256 + end_offset = N; the 255 padding of the last buffer is
\* not counted.
C19_CloseFinalization ==
    [][(op'[1] = "close_file" /\ mode = FLASHFAT_WRITE_MODE
          /\ mode' = FLASHFAT_NO_MODE) =>
          LET N == Len(written)
              e == PersistedEntry(Medium', file_index)
          IN  /\ e = FileAt(table', file_index)
              /\ e.page_length = N \div PAGE_SIZE
              /\ e.end_offset = N % PAGE_SIZE
              /\ e.page_length * PAGE_SIZE + e.end_offset = N
              /\ content'[file_index] = written]_vars

\* A file of exactly one write buffer was closed, after files or sessions of
\* other lengths.
C19_Witness ==
    /\ op[1] = "close_file"
    /\ mode = FLASHFAT_NO_MODE
    /\ table.num_files = 1
    /\ Len(content[0]) = FLASH_FAT_FILE_BUFFER
    /\ PersistedEntry(Medium, 0).page_length = 2
    /\ PersistedEntry(Medium, 0).end_offset = 0
    /\ sessions = 2

\* C20: every sector erase and every page program of an operation comes after
\* an enable_writing and a busy-wait of that operation, with no other erase
\* or program between the enable_writing and it, so that the write-enable
\* latch is set and settled when the erase or program is issued.
C20_WriteEnableOrdering ==
    /\ ~unarmed
    /\ \A k \in 1..Len(calls) :
          calls[k][1] \in {"erase_sector", "write_page"} =>
              \E j \in 1..(k - 1) :
                  /\ calls[j][1] = "enable_writing"
                  /\ \E w \in (j + 1)..(k - 1) : calls[w][1] = "wait_until_free"
                  /\ \A b \in (j + 1)..(k - 1) :
                        calls[b][1] \notin {"erase_sector", "write_page"}

\* The power was lost after the erase of a table store and before its
\* program.
Torn(log) ==
    \E k \in 1..Len(log) :
        /\ log[k] = <<"erase_sector", 0, "write_file_allocation_table">>
        /\ \A j \in (k + 1)..Len(log) : log[j][1] # "write_page"

\* C21: a power loss between the erase and the program of a table store, in
\* whatever operation, leaves page 0 without the marker: the load of a new
\* object reports the table as not found, and its begin() returns success
\* with a persisted table of 0 files. A power loss at any other point of an
\* operation, or between operations, leaves the table that was there, which
\* the load accepts.
C21_NonAtomicTableCommit ==
    /\ [][op'[1] = "power_loss" =>
            IF Torn(calls')
            THEN ~HasMarker(Medium')
            ELSE HasMarker(Medium) => HasMarker(Medium')]_vars
    /\ [](op[1] = "power_loss" =>
            IF HasMarker(Medium)
            THEN get_file_allocation_table(St).ret = FLASHFAT_OK
            ELSE /\ get_file_allocation_table(St).ret
                       = FLASHFAT_FILE_ALLOCATION_TABLE_NOT_FOUND
                 /\ LET b == begin(St)
                    IN  /\ b.ret = FLASHFAT_OK
                        /\ b.table.num_files = 0
                        /\ HasMarker(b)
                        /\ PersistedNumFiles(b) = 0)
    /\ [](op[1] \notin {"construct", "power_loss"} =>
            /\ HasMarker(Medium)
            /\ get_file_allocation_table(Reconstructed).ret = FLASHFAT_OK)

\* The power was lost in the table store of a close_file(), after the flush
\* of the file's bytes.
C21_Witness ==
    /\ op[1] = "power_loss"
    /\ Torn(calls)
    /\ \E k \in 1..Len(calls) : calls[k] [3] = "close_file" /\ calls[k][1] = "write_page"
    /\ ~HasMarker(Medium)
    /\ begin(St).ret = FLASHFAT_OK

====
